---------------------------- MODULE Spec2Model ----------------------------
(***************************************************************************)
(* A model of PyABSA's inference data pipeline (ABSADataset.parse_sample   *)
(* and ABSADataset.process_data), of the APC training loop                 *)
(* (Instructor.prepare_dataloader, Instructor._train_and_evaluate) and of  *)
(* their callers (train4apc, SentimentClassifier).                         *)
(*                                                                         *)
(* Text is a sequence of symbols.  A symbol is one plain character ("a",   *)
(* "b", " ", a digit) or one whole marker ("[ASP]", "!sent!", "[PADDING]", *)
(* "[TEMP]").  No marker is a substring of a text built from the other     *)
(* symbols and no marker overlaps itself, so Python's character-level      *)
(* split / replace / in on such texts act exactly as the symbol-level      *)
(* operators below.                                                        *)
(***************************************************************************)
EXTENDS Integers, Sequences, FiniteSets, TLC

VARIABLES
    \* ---- inference pipeline (data_utils_for_inferring.py) ----
    pc,            \* position of the pipeline: "start", "parsed", "processed"
    line,          \* the raw annotated line handed to parse_sample
    samples,       \* the list parse_sample returned
    warned,        \* parse_sample printed the mismatch warning
    errored,       \* parse_sample printed 'Error while processing:'
    opt,           \* self.opt: [model_name, lcf]
    ignore_error,  \* the ignore_error argument of process_data
    all_data,      \* self.all_data of the dataset
    raised,        \* the exception process_data left the call with, or "none"
    n_processed,   \* number of samples process_data's loop has taken up
    \* ---- training loop (apc_trainer.py) ----
    tpc,           \* position of the trainer
    cfg,           \* the training configuration (self.opt)
    folds,         \* random_split's partitions (held-out example sets)
    train_data_loaders,
    test_data_loaders,
    run,           \* the loop's locals and the files it keeps on disk
    \* ---- callers (train4apc, SentimentClassifier) ----
    t4,            \* train4apc: its local trainer and what it has done so far
    pred,          \* SentimentClassifier: the results of the inference calls
    \* ---- a feature builder called on its own ----
    vec            \* its arguments and the vector it returned

inferVars == <<pc, line, samples, warned, errored, opt, ignore_error,
               all_data, raised, n_processed>>
trainVars == <<tpc, cfg, folds, train_data_loaders, test_data_loaders, run>>
callerVars == <<t4, pred>>
featVars == <<vec>>
vars == <<inferVars, trainVars, callerVars, featVars>>

(***************************************************************************)
(* Markers and bounds                                                      *)
(***************************************************************************)
ASP  == "[ASP]"
SENT == "!sent!"
PAD  == "[PADDING]"
TEMP == "[TEMP]"
SP   == " "
CLS  == "[CLS]"
SEP  == "[SEP]"

NoLabel == -999

\* Number of items a raw line's text part is built from.
MaxItems == 2
\* Number of reference polarities a raw line may carry after !sent!.
MaxRef == 2

Digits == {"0", "1", "2"}
DigitVal(d) == CASE d = "0" -> 0 [] d = "1" -> 1 [] d = "2" -> 2

(***************************************************************************)
(* Python's str operations on symbol sequences                             *)
(***************************************************************************)
\* pat in s
Contains(s, pat) ==
    \E i \in 1..(Len(s) - Len(pat) + 1) : SubSeq(s, i, i + Len(pat) - 1) = pat

StartsWith(s, pat) ==
    Len(pat) <= Len(s) /\ SubSeq(s, 1, Len(pat)) = pat

\* s.count(c) for a one-symbol c
RECURSIVE Count(_, _)
Count(s, c) ==
    IF s = <<>> THEN 0
    ELSE (IF Head(s) = c THEN 1 ELSE 0) + Count(Tail(s), c)

\* s.replace(old, new): every non-overlapping occurrence, left to right; an
\* empty old matches before every symbol and at the end.
RECURSIVE ReplaceNonEmpty(_, _, _)
ReplaceNonEmpty(s, old, new) ==
    IF s = <<>> THEN <<>>
    ELSE IF StartsWith(s, old)
         THEN new \o ReplaceNonEmpty(SubSeq(s, Len(old) + 1, Len(s)), old, new)
         ELSE <<Head(s)>> \o ReplaceNonEmpty(Tail(s), old, new)

RECURSIVE ReplaceEmpty(_, _)
ReplaceEmpty(s, new) ==
    IF s = <<>> THEN new
    ELSE new \o <<Head(s)>> \o ReplaceEmpty(Tail(s), new)

Replace(s, old, new) ==
    IF old = <<>> THEN ReplaceEmpty(s, new) ELSE ReplaceNonEmpty(s, old, new)

\* s.split(c) for a one-symbol separator c: always at least one piece.
RECURSIVE Split(_, _)
Split(s, c) ==
    IF s = <<>> THEN << <<>> >>
    ELSE LET r == Split(Tail(s), c)
         IN  IF Head(s) = c
             THEN << <<>> >> \o r
             ELSE << <<Head(s)>> \o r[1] >> \o Tail(r)

\* s.split(): the maximal runs of non-blank symbols.
SplitWS(s) == SelectSeq(Split(s, SP), LAMBDA w : w # <<>>)

\* s.strip()
RECURSIVE LStrip(_)
LStrip(s) == IF s # <<>> /\ Head(s) = SP THEN LStrip(Tail(s)) ELSE s

RECURSIVE RStrip(_)
RStrip(s) ==
    IF s # <<>> /\ s[Len(s)] = SP THEN RStrip(SubSeq(s, 1, Len(s) - 1)) ELSE s

Strip(s) == RStrip(LStrip(s))

\* ' '.join(words)
RECURSIVE Join(_)
Join(words) ==
    IF words = <<>> THEN <<>>
    ELSE IF Len(words) = 1 THEN words[1]
         ELSE words[1] \o <<SP>> \o Join(Tail(words))

\* int(s): s stripped must be a non-empty run of digits, else ValueError.
IsInt(s) == Strip(s) # <<>> /\ \A i \in 1..Len(Strip(s)) : Strip(s)[i] \in Digits

RECURSIVE DecVal(_)
DecVal(s) ==
    IF s = <<>> THEN 0
    ELSE 10 * DecVal(SubSeq(s, 1, Len(s) - 1)) + DigitVal(s[Len(s)])

IntOf(s) == DecVal(Strip(s))


(***************************************************************************)
(* ABSADataset.parse_sample                                                *)
(***************************************************************************)
\* text.replace('[ASP]', '')
StripMarkers(text) == Replace(text, <<ASP>>, <<>>)

\* Number of passes of `for i in range(0, len(splits) - 1, 2)`.
LoopCount(splits) == Len(splits) \div 2

\* The aspect text splits[i + 1] of pass j = i / 2 + 1 (TLA+ counts from 1).
AspectOfShifted(splits, j) == splits[2 * j - 1]

AspectOf(splits, j) == splits[2 * j]

\* Line 37: the sample of pass j when the line has no !sent! section.
PlainSample(text, splits, j) ==
    Replace(StripMarkers(text), AspectOf(splits, j),
            <<ASP>> \o AspectOf(splits, j) \o <<ASP>>)

\* Lines 47-48 and 55-56: the marked span becomes [TEMP]-delimited, every
\* other marker is dropped.
TempSample(text, splits, j) ==
    StripMarkers(Replace(text, <<ASP>> \o AspectOf(splits, j) \o <<ASP>>,
                         <<TEMP>> \o AspectOf(splits, j) \o <<TEMP>>))

\* Lines 49-50 and 57: [TEMP] back to [ASP].
Unmark(sample) == Replace(sample, <<TEMP>>, <<ASP>>)

\* Lines 36-38.
RECURSIVE PlainLoop(_, _, _, _)
PlainLoop(text, splits, j, acc) ==
    IF j > LoopCount(splits) THEN acc
    ELSE PlainLoop(text, splits, j + 1, Append(acc, PlainSample(text, splits, j)))

\* Line 45: int((len(splits) - 1) / 2) == len(ref_sent)
CountsMatchLoose(splits, ref_sent) == (Len(splits) - 1) \div 2 <= Len(ref_sent)

CountsMatch(splits, ref_sent) == (Len(splits) - 1) \div 2 = Len(ref_sent)

\* Line 49: ref_sent[int(i / 2)] in pass j.
RefOfFirst(ref_sent, j) == ref_sent[1]

RefOf(ref_sent, j) == ref_sent[j]

\* Lines 46-50: ref_sent[int(i / 2)] raises IndexError once the pass number
\* runs past the reference list; the samples appended so far stay in the list.
RECURSIVE LabeledLoop(_, _, _, _, _)
LabeledLoop(text, splits, ref_sent, j, acc) ==
    IF j > LoopCount(splits) THEN [samples |-> acc, errored |-> FALSE]
    ELSE IF j > Len(ref_sent) THEN [samples |-> acc, errored |-> TRUE]
    ELSE LabeledLoop(text, splits, ref_sent, j + 1,
             Append(acc, Unmark(TempSample(text, splits, j)
                                \o <<SP, SENT, SP>> \o RefOf(ref_sent, j))))

\* Lines 54-57.
RECURSIVE UnlabeledLoop(_, _, _, _)
UnlabeledLoop(text, splits, j, acc) ==
    IF j > LoopCount(splits) THEN acc
    ELSE UnlabeledLoop(text, splits, j + 1,
                       Append(acc, Unmark(TempSample(text, splits, j))))

\* Lines 40-57: the branch of a line that holds !sent!.
SentBranch(text0) ==
    LET parts == Split(text0, SENT)
    IN  IF Len(parts) # 2
        THEN \* text, ref_sent = ... : ValueError, caught by the bare except
             [samples |-> <<>>, warned |-> FALSE, errored |-> TRUE]
        ELSE LET ref_sent == SplitWS(parts[2])
                 text     == <<PAD, SP>> \o parts[1] \o <<SP, PAD>>
                 splits   == Split(text, ASP)
             IN  IF CountsMatch(splits, ref_sent)
                 THEN LET r == LabeledLoop(text, splits, ref_sent, 1, <<>>)
                      IN  [samples |-> r.samples, warned |-> FALSE,
                           errored |-> r.errored]
                 ELSE [samples |-> UnlabeledLoop(text, splits, 1, <<>>),
                       warned |-> TRUE, errored |-> FALSE]

\* parse_sample(text): the returned list and what was printed.
parse_sample(text) ==
    IF ~Contains(text, <<SENT>>)
    THEN [samples |-> PlainLoop(text, Split(text, ASP), 1, <<>>),
          warned |-> FALSE, errored |-> FALSE]
    ELSE SentBranch(text)

(***************************************************************************)
(* Raw annotated lines                                                     *)
(***************************************************************************)
\* What a line's text part is built from: a plain word with its blank, a
\* marked aspect, a stray marker.
Items == { <<"a", SP>>, <<ASP, "a", ASP>>, <<ASP, "b", ASP>>, <<ASP>> }

RECURSIVE Flatten(_)
Flatten(ss) == IF ss = <<>> THEN <<>> ELSE Head(ss) \o Flatten(Tail(ss))

Bodies == { Flatten(ss) : ss \in UNION { [1..n -> Items] : n \in 0..MaxItems } }

\* Reference polarities, separated by one blank.
RefLists == UNION { [1..n -> Digits] : n \in 0..MaxRef }

RefText(refs) == Join([i \in 1..Len(refs) |-> <<refs[i]>>])

\* No section, a section with 0..MaxRef polarities, or a doubled separator.
Sections == { <<>>, <<SENT, SENT>> }
              \cup { <<SP, SENT, SP>> \o RefText(refs) : refs \in RefLists }

Lines == { b \o t : b \in Bodies, t \in Sections }


(***************************************************************************)
(* ABSADataset.process_data                                                *)
(***************************************************************************)
\* tokenizer.max_seq_len (= opt.max_seq_len) of the explored configuration.
max_seq_len == 4

\* self.input_colses
input_colses ==
    [bert_base      |-> {"text_raw_bert_indices"},
     bert_spc       |-> {"text_raw_bert_indices"},
     lca_bert       |-> {"text_bert_indices", "text_raw_bert_indices", "lca_ids", "lcf_vec"},
     lcf_bert       |-> {"text_bert_indices", "text_raw_bert_indices", "lcf_vec"},
     slide_lcf_bert |-> {"text_bert_indices", "spc_mask_vec", "lcf_vec",
                         "left_lcf_vec", "right_lcf_vec"}]

\* 'lca' in model_name, 'lcf' in model_name, 'slide' in model_name
IsLca(model_name)   == model_name = "lca_bert"
IsLcf(model_name)   == model_name \in {"lcf_bert", "slide_lcf_bert"}
IsSlide(model_name) == model_name = "slide_lcf_bert"

\* The first n / the last n elements of a list: words[:n], words[-n:].
FirstN(words, n) == SubSeq(words, 1, IF n < Len(words) THEN n ELSE Len(words))
LastN(words, n) ==
    SubSeq(words, IF n < Len(words) THEN Len(words) - n + 1 ELSE 1, Len(words))

\* tokenizer.text_to_sequence: one id per blank-separated word (a word stands
\* for its id), cut to max_seq_len and padded with the zero id <<>>.
text_to_sequence(text) ==
    LET words == FirstN(SplitWS(text), max_seq_len)
    IN  [i \in 1..max_seq_len |-> IF i <= Len(words) THEN words[i] ELSE <<>>]

\* np.count_nonzero(ids)
CountNonzero(ids) == Cardinality({i \in 1..Len(ids) : ids[i] # <<>>})

\* np.argwhere(text_ids == aspect_indices[1]): the positions (from 0).
ArgWhere(text_ids, aspect_indices) ==
    {i \in 0..(Len(text_ids) - 1) : text_ids[i + 1] = aspect_indices[2]}

SetMin(S) == CHOOSE x \in S : \A y \in S : x <= y

\* get_asp_index, doubled to stay in the integers:
\* 2 * asp_avg_index = aspect_begin * 2 + aspect_len.
get_asp_index2(text_ids, aspect_indices) ==
    SetMin(ArgWhere(text_ids, aspect_indices)) * 2 + (CountNonzero(aspect_indices) - 2)

Failure(exc) == [ok |-> FALSE, exc |-> exc]

PolarityUnshifted(text) ==
    IF Contains(text, <<SENT>>)
    THEN LET polarity == Strip(Split(text, SENT)[2])
         IN  IF polarity = <<>> THEN [ok |-> TRUE, value |-> NoLabel]
             ELSE IF IsInt(polarity) THEN [ok |-> TRUE, value |-> IntOf(polarity)]
             ELSE [ok |-> FALSE, value |-> 0]
    ELSE [ok |-> TRUE, value |-> NoLabel]

\* Lines 87-91: the polarity of a sample, or the ValueError of int().
Polarity(text) ==
    IF Contains(text, <<SENT>>)
    THEN LET polarity == Strip(Split(text, SENT)[2])
         IN  IF polarity = <<>> THEN [ok |-> TRUE, value |-> NoLabel]
             ELSE IF IsInt(polarity) THEN [ok |-> TRUE, value |-> IntOf(polarity) + 1]
             ELSE [ok |-> FALSE, value |-> 0]
    ELSE [ok |-> TRUE, value |-> NoLabel]

\* Lines 110-126: which builder gives lcf_vec, or the exception of the mode.
LcfMode(o) ==
    IF IsLca(o.model_name) THEN "cdm"
    ELSE IF IsLcf(o.model_name)
         THEN IF o.lcf = "cdm" THEN "cdm"
              ELSE IF o.lcf = "cdw" THEN "cdw"
              ELSE IF o.lcf = "fusion" THEN "NotImplementedError"
              ELSE "KeyError"
         ELSE "unused"

\* Lines 93-148 for a sample whose text part has exactly two markers.
AssembleRecord(pieces, polarity, o) ==
    LET aspect     == pieces[2]
        keep       == (max_seq_len - Len(SplitWS(aspect))) \div 2 + 1
        text_left  == Join(LastN(Split(Replace(pieces[1], <<PAD, SP>>, <<>>), SP), keep))
        text_right == Join(FirstN(Split(Replace(pieces[3], <<SP, PAD>>, <<>>), SP), keep))
        text_raw   == text_left \o <<SP>> \o aspect \o <<SP>> \o text_right
        text_bert_indices ==
            text_to_sequence(<<CLS, SP>> \o text_raw \o <<SP, SEP, SP>> \o aspect \o <<SP, SEP>>)
        aspect_bert_indices == text_to_sequence(<<CLS, SP>> \o aspect \o <<SP, SEP>>)
        mode == LcfMode(o)
        cols == input_colses[o.model_name]
    IN  IF mode \in {"NotImplementedError", "KeyError"} THEN Failure(mode)
        ELSE IF ArgWhere(text_bert_indices, aspect_bert_indices) = {}
             THEN Failure("IndexError")
        ELSE [ok |-> TRUE, exc |-> "none",
              data |-> [text_raw  |-> text_raw,
                        aspect    |-> aspect,
                        asp_index2 |-> get_asp_index2(text_bert_indices, aspect_bert_indices),
                        lcf_vec   |-> IF "lcf_vec" \in cols THEN mode ELSE "0",
                        lca_ids   |-> IF "lca_ids" \in cols THEN "ones" ELSE "0",
                        text_bert_indices |->
                            IF "text_bert_indices" \in cols THEN text_bert_indices ELSE <<>>,
                        polarity  |-> polarity]]

\* Lines 81-152: the try block for one sample.
BuildRecord(text, o) ==
    IF Strip(text) = <<>> THEN Failure("RuntimeError")
    ELSE LET p == Polarity(text)
             body == IF Contains(text, <<SENT>>) THEN Strip(Split(text, SENT)[1]) ELSE text
             pieces == Split(body, ASP)
         IN  IF ~p.ok THEN Failure("ValueError")
             ELSE IF Len(pieces) # 3 THEN Failure("ValueError")
             ELSE AssembleRecord(pieces, p.value, o)

StopsAtAny(r, ignore) == ~r.ok

\* Lines 154-159: what the except clause does with a failed sample.
StopsAt(r, ignore) == ~r.ok /\ ~ignore

\* Lines 78-159: the loop over the samples.  n counts the samples taken up.
RECURSIVE ProcessLoop(_, _, _, _, _)
ProcessLoop(todo, o, ignore, acc, n) ==
    IF todo = <<>> THEN [all_data |-> acc, raised |-> "none", n |-> n]
    ELSE LET r == BuildRecord(Head(todo), o)
         IN  IF r.ok THEN ProcessLoop(Tail(todo), o, ignore, Append(acc, r.data), n + 1)
             ELSE IF StopsAt(r, ignore)
                  THEN [all_data |-> acc, raised |-> "RuntimeError", n |-> n + 1]
                  ELSE ProcessLoop(Tail(todo), o, ignore, acc, n + 1)

\* apc_utils.is_similar: how many ids of s1 find a partner of their own in
\* s2, against the length of either; similar when the share that finds none
\* stays below the threshold of one in SimilarParts.
SimilarParts == 10

Occurrences(s, e) == Cardinality({i \in 1..Len(s) : s[i] = e})

Smaller(a, b) == IF a < b THEN a ELSE b

RECURSIVE SumOver(_, _, _)
SumOver(S, s1, s2) ==
    IF S = {} THEN 0
    ELSE LET e == CHOOSE x \in S : TRUE
         IN  Smaller(Occurrences(s1, e), Occurrences(s2, e)) + SumOver(S \ {e}, s1, s2)

Matched(s1, s2) == SumOver({s1[i] : i \in 1..Len(s1)}, s1, s2)

is_similar(s1, s2) ==
    /\ SimilarParts * (Len(s1) - Matched(s1, s2)) < Len(s1)
    /\ SimilarParts * (Len(s2) - Matched(s1, s2)) < Len(s2)

\* apc_utils.copy_side_aspect(direct, target, source):
\* target[direct + '_lcf_vec'] = source['lcf_vec']
copy_side_aspect(direct, target, source) ==
    IF direct = "left"
    THEN ("left_lcf_vec" :> source.lcf_vec) @@ target
    ELSE ("right_lcf_vec" :> source.lcf_vec) @@ target

LinkSourceOwn(similar, other, own) == own

\* Lines 164-170: the record a side vector is taken from.
LinkSource(similar, other, own) == IF similar THEN other ELSE own

\* Lines 163-170: the loop over idx = 1 .. len(all_data) - 1 (positions from
\* 0; data[idx] here is all_data[idx - 1] there).
RECURSIVE SlideLoop(_, _)
SlideLoop(data, idx) ==
    IF idx >= Len(data) THEN data
    ELSE LET similar == is_similar(data[idx].text_bert_indices,
                                   data[idx + 1].text_bert_indices)
             d1 == [data EXCEPT ![idx] =
                       copy_side_aspect("right", data[idx],
                                        LinkSource(similar, data[idx + 1], data[idx]))]
             d2 == [d1 EXCEPT ![idx + 1] =
                       copy_side_aspect("left", d1[idx + 1],
                                        LinkSource(similar, d1[idx], d1[idx + 1]))]
         IN  SlideLoop(d2, idx + 1)

\* Lines 161-171: the linkage pass over the built records.
SlideLinkage(data, model_name) ==
    IF data # <<>> /\ IsSlide(model_name)
    THEN LET d0 == [data EXCEPT ![1] = copy_side_aspect("left", data[1], data[1])]
             d1 == SlideLoop(d0, 1)
         IN  [d1 EXCEPT ![Len(d1)] = copy_side_aspect("right", d1[Len(d1)], d1[Len(d1)])]
    ELSE data

StoredAfterEarlier(self_all_data, all_data_built) == self_all_data \o all_data_built

\* Line 172: self.all_data = all_data
StoredData(self_all_data, all_data_built) == all_data_built

PartialAfterRaise(self_all_data, all_data_built) == all_data_built

\* Line 159: the raise leaves process_data before line 172 is reached, the
\* records built so far are in the local list only.
DataAfterRaise(self_all_data, all_data_built) == self_all_data

\* Lines 258-262: __getitem__ and __len__ of a dataset holding data.
GetItem(data, index) == data[index + 1]
DatasetLen(data) == Len(data)

\* Lines 78-173: a loop that raises leaves before the linkage pass.
process_data(smpls, o, ignore) ==
    LET r == ProcessLoop(smpls, o, ignore, <<>>, 0)
    IN  IF r.raised = "none"
        THEN [r EXCEPT !.all_data = SlideLinkage(r.all_data, o.model_name)]
        ELSE r

(***************************************************************************)
(* The inference pipeline: prepare_infer_sample = parse_sample, then       *)
(* process_data                                                            *)
(***************************************************************************)
ModelNames == {"bert_base", "lca_bert", "lcf_bert", "slide_lcf_bert"}
LcfModes   == {"cdm", "cdw", "fusion", "other"}
Opts       == [model_name : ModelNames, lcf : LcfModes]

\* No caller is at work.
CallerIdle ==
    /\ t4 = <<>>
    /\ pred = <<>>

\* No feature builder is called on its own.
FeatIdle == vec = <<>>

TrainIdle ==
    /\ tpc = "idle"
    /\ cfg = <<>>
    /\ folds = <<>>
    /\ train_data_loaders = <<>>
    /\ test_data_loaders = <<>>
    /\ run = <<>>

InferInit ==
    /\ pc = "start"
    /\ line \in Lines
    /\ samples = <<>>
    /\ warned = FALSE
    /\ errored = FALSE
    /\ opt \in Opts
    /\ ignore_error = TRUE
    /\ all_data = <<>>
    /\ raised = "none"
    /\ n_processed = 0
    /\ TrainIdle
    /\ CallerIdle
    /\ FeatIdle

ParseSample ==
    /\ pc = "start"
    /\ LET r == parse_sample(line)
       IN  /\ samples' = r.samples
           /\ warned' = r.warned
           /\ errored' = r.errored
    /\ pc' = "parsed"
    /\ UNCHANGED <<line, opt, ignore_error, all_data, raised, n_processed>>
    /\ UNCHANGED trainVars
    /\ UNCHANGED callerVars
    /\ UNCHANGED featVars

ProcessData ==
    /\ pc = "parsed"
    /\ \E ignore \in BOOLEAN :
          LET r == process_data(samples, opt, ignore)
          IN  /\ ignore_error' = ignore
              /\ raised' = r.raised
              /\ n_processed' = r.n
              /\ all_data' = IF r.raised = "none"
                              THEN StoredData(all_data, r.all_data)
                              ELSE DataAfterRaise(all_data, r.all_data)
    /\ pc' = "processed"
    /\ UNCHANGED <<line, samples, warned, errored, opt>>
    /\ UNCHANGED trainVars
    /\ UNCHANGED callerVars
    /\ UNCHANGED featVars

InferNext == ParseSample \/ ProcessData

SpecInfer == InferInit /\ [][InferNext]_vars


(***************************************************************************)
(* Properties of the inference pipeline                                    *)
(***************************************************************************)
\* The shape of the raw line, read off the line itself.
NSections     == Count(line, SENT)
TextPart      == Split(line, SENT)[1]
NMarkers      == Count(TextPart, ASP)
NSpans        == NMarkers \div 2
WellFormed    == NMarkers % 2 = 0 /\ NSections <= 1
SpanText(i)   == Split(TextPart, ASP)[2 * i]
Refs          == IF NSections = 1 THEN SplitWS(Split(line, SENT)[2]) ELSE <<>>
Parsed        == pc \in {"parsed", "processed"}
EndsWith(s, suffix) ==
    Len(suffix) <= Len(s) /\ SubSeq(s, Len(s) - Len(suffix) + 1, Len(s)) = suffix

\* C1: every sample parse_sample emits for a line with k >= 1 well-formed
\* spans holds exactly one pair of [ASP] markers, also when an aspect's text
\* occurs elsewhere in the line or is marked more than once.
C1_OneMarkedAspectPerSample ==
    (Parsed /\ WellFormed /\ NSpans >= 1)
        => \A i \in 1..Len(samples) : Count(samples[i], ASP) = 2

\* C2: a line with k spans and no !sent! section gives exactly k samples, the
\* i-th marking the i-th span's text and otherwise spelling the line without
\* its markers.
C2_PlainLineGivesOneSamplePerSpan ==
    (Parsed /\ NSections = 0 /\ NMarkers % 2 = 0)
        => /\ Len(samples) = NSpans
           /\ \A i \in 1..Len(samples) :
                 /\ Contains(samples[i], <<ASP>> \o SpanText(i) \o <<ASP>>)
                 /\ StripMarkers(samples[i]) = StripMarkers(line)

C2_Witness ==
    /\ pc = "parsed" /\ NSections = 0 /\ NSpans = 2 /\ NMarkers = 4
    /\ Len(samples) = 2
    /\ samples[1] # samples[2]

\* C3: a line with k spans and exactly k reference polarities gives k
\* samples, the i-th ending with ' !sent! ' and the i-th polarity.
C3_SampleCarriesItsOwnPolarity ==
    (Parsed /\ NSections = 1 /\ NMarkers % 2 = 0 /\ Len(Refs) = NSpans)
        => /\ Len(samples) = NSpans
           /\ \A i \in 1..Len(samples) :
                 EndsWith(samples[i], <<SP, SENT, SP>> \o Refs[i])

C3_Witness ==
    /\ pc = "parsed" /\ NSections = 1 /\ NMarkers = 4 /\ Len(Refs) = 2
    /\ Refs[1] # Refs[2]
    /\ Len(samples) = 2
    /\ EndsWith(samples[2], <<SP, SENT, SP>> \o Refs[2])

\* C4: a line with k spans and j # k reference polarities gives k samples
\* without any !sent! annotation and a mismatch warning; process_data gives
\* each record built from them the unlabeled sentinel.
C4_MismatchDropsPolarities ==
    (Parsed /\ NSections = 1 /\ NMarkers % 2 = 0 /\ Len(Refs) # NSpans)
        => /\ Len(samples) = NSpans
           /\ \A i \in 1..Len(samples) : ~Contains(samples[i], <<SENT>>)
           /\ warned
           /\ pc = "processed" =>
                 \A i \in 1..Len(all_data) : all_data[i].polarity = NoLabel

C4_Witness ==
    /\ pc = "processed" /\ NSections = 1 /\ NMarkers = 4 /\ Len(Refs) = 1
    /\ warned
    /\ Len(samples) = 2
    /\ Len(all_data) = 2

\* C5: whenever parse_sample fails internally on a line it returns the empty
\* list for that line.
C5_FailedLineYieldsNoSamples ==
    (Parsed /\ errored) => samples = <<>>

\* The label a sample carries after !sent!, read off the sample.
Annotation(sample) ==
    IF Contains(sample, <<SENT>>) THEN Strip(Split(sample, SENT)[2]) ELSE <<>>
Labeled(sample) == Len(Annotation(sample)) = 1 /\ Annotation(sample)[1] \in Digits
Unlabeled(sample) == Annotation(sample) = <<>>

\* C6: a record built from a sample labeled p in {0,1,2} has polarity p + 1,
\* one built from an unlabeled sample has -999, and a record's polarity is
\* -999 exactly when its sample was unlabeled.
C6_PolarityShiftedOrSentinel ==
    (pc = "processed" /\ raised = "none" /\ Len(all_data) = Len(samples))
        => \A i \in 1..Len(samples) :
              /\ Labeled(samples[i])
                    => all_data[i].polarity = DigitVal(Annotation(samples[i])[1]) + 1
              /\ Unlabeled(samples[i]) => all_data[i].polarity = NoLabel
              /\ (all_data[i].polarity = NoLabel) <=> Unlabeled(samples[i])

C6_Witness ==
    /\ pc = "processed" /\ raised = "none"
    /\ Len(samples) = 2 /\ Len(all_data) = 2
    /\ Labeled(samples[1]) /\ Labeled(samples[2])
    /\ all_data[1].polarity = 3
    /\ all_data[2].polarity = 1

\* The samples whose record builds without an exception (their records,
\* linked for a slide model), and the first that does not.
Builds(sample) == BuildRecord(sample, opt).ok
BuiltRecords ==
    LET good == SelectSeq(samples, Builds)
    IN  SlideLinkage([i \in 1..Len(good) |-> BuildRecord(good[i], opt).data],
                     opt.model_name)
FailingAt == {i \in 1..Len(samples) : ~Builds(samples[i])}

\* C7: with ignore_error process_data never raises and returns the records
\* of the samples that build, in input order, having gone through every
\* sample; without it, it raises RuntimeError at the first sample that fails
\* and takes up no later sample.
C7_ErrorPolicy ==
    pc = "processed"
        => /\ ignore_error
                => /\ raised = "none"
                   /\ all_data = BuiltRecords
                   /\ n_processed = Len(samples)
           /\ (~ignore_error /\ FailingAt # {})
                => /\ raised = "RuntimeError"
                   /\ n_processed = SetMin(FailingAt)
           /\ (~ignore_error /\ FailingAt = {})
                => /\ raised = "none"
                   /\ all_data = BuiltRecords

C7_Witness ==
    /\ pc = "processed" /\ ignore_error
    /\ Len(samples) = 2
    /\ n_processed = 2
    /\ Len(all_data) = 1
    /\ FailingAt # {}

\* C8: with lcf = 'fusion' process_data fails with an error that reaches the
\* caller before any record is produced, whatever the model variant and the
\* ignore_error setting.
C8_FusionFailsFast ==
    (pc = "processed" /\ opt.lcf = "fusion" /\ samples # <<>>)
        => /\ raised # "none"
           /\ all_data = <<>>


(***************************************************************************)
(* Instructor: the training configuration and the data loaders             *)
(***************************************************************************)
\* Largest cross_validate_fold and number of training examples of the explored
\* splits; largest cross_validate_fold and num_epoch of the explored runs.
MaxFold      == 3
MaxExamples  == 4
MaxTrainFold == 2
MaxEpoch     == 2
\* The values of log_step and evaluate_begin of the explored configurations.
LogSteps     == {1, 2}
EvalBegins   == {0, 1}
\* Metric values an evaluation may return: the value u stands for u / 250
\* percent (0.004 %), so that neighbouring values may round together.
MaxMetric    == 2

\* round(metric * 100, 2) of lines 172-173: u * 0.4 hundredths of a percent,
\* rounded to the nearest hundredth (0.4 * u never lies half-way).
RoundPct(u) == (4 * u + 5) \div 10

\* The training examples are 1..n_train; the test examples follow them, as
\* in ConcatDataset([train_set, test_set]).
TrainSet(c) == 1..c.n_train
TestSet(c)  == (c.n_train + 1)..(c.n_train + c.n_test)

\* Line 87: len(sum_dataset) // cross_validate_fold
LenPerFold(n, k) == n \div k

\* Lines 88-89: the lengths handed to random_split.
SplitLengths(n, k) ==
    [i \in 1..k |-> IF i < k THEN LenPerFold(n, k)
                    ELSE n - LenPerFold(n, k) * (k - 1)]

RECURSIVE SumSeq(_)
SumSeq(q) == IF q = <<>> THEN 0 ELSE Head(q) + SumSeq(Tail(q))

\* torch's random_split: a random permutation of the indices, cut into
\* consecutive runs of the given lengths.
Shuffles(S) ==
    {p \in [1..Cardinality(S) -> S] : \A i, j \in DOMAIN p : p[i] = p[j] => i = j}

Offset(lengths, i) == SumSeq(SubSeq(lengths, 1, i - 1))

Slices(perm, lengths) ==
    [i \in 1..Len(lengths) |->
        {perm[j] : j \in (Offset(lengths, i) + 1)..(Offset(lengths, i) + lengths[i])}]

\* Line 92: the datasets fold f_idx (from 1) trains on.
OtherFolds(fs, f_idx) == SelectSeq([i \in 1..Len(fs) |-> [idx |-> i, set |-> fs[i]]],
                                   LAMBDA x : x.idx # f_idx)

\* ConcatDataset(ds): the union of the datasets.
ConcatSet(ds) == UNION {ds[i].set : i \in 1..Len(ds)}

Loader(dataset, shuffle) == [dataset |-> dataset, shuffle |-> shuffle]

\* Lines 72-81: no cross-validation.
SingleSplit(c) ==
    [exc   |-> "none",
     folds |-> <<>>,
     train |-> <<Loader(TrainSet(c), TRUE)>>,
     test  |-> IF c.has_test /\ c.n_test > 0
               THEN <<Loader(TestSet(c), FALSE)>> ELSE <<>>]

\* The folds (from 1) whose training set has no example.
EmptyTrainFolds(fs) == {f \in 1..Len(fs) : ConcatSet(OtherFolds(fs, f)) = {}}

\* Lines 83-97 for one outcome perm of random_split's shuffle.  random_split
\* raises ValueError when the lengths do not add up to the dataset, and
\* ConcatDataset rejects an empty list of datasets (an assertion of its
\* constructor), which is what fold 0 of a single-fold run hands it.  Whether
\* a shuffling DataLoader accepts a dataset without examples depends on the
\* installed torch (empty_ok); if it does not, the loaders of the folds
\* before stay appended.
CrossValidationSplit(c, sum_dataset, perm, empty_ok) ==
    LET k       == c.cross_validate_fold
        lengths == SplitLengths(Cardinality(sum_dataset), k)
        fs      == Slices(perm, lengths)
        done    == IF EmptyTrainFolds(fs) = {} \/ empty_ok THEN k
                   ELSE SetMin(EmptyTrainFolds(fs)) - 1
    IN  IF SumSeq(lengths) # Cardinality(sum_dataset)
        THEN [exc |-> "ValueError", folds |-> <<>>, train |-> <<>>, test |-> <<>>]
        ELSE IF OtherFolds(fs, 1) = <<>>
        THEN [exc |-> "AssertionError", folds |-> fs, train |-> <<>>, test |-> <<>>]
        ELSE [exc   |-> IF done = k THEN "none" ELSE "ValueError",
              folds |-> fs,
              train |-> [f \in 1..done |-> Loader(ConcatSet(OtherFolds(fs, f)), TRUE)],
              test  |-> [f \in 1..done |-> Loader(fs[f], FALSE)]]

\* Lines 83-86: what is split.
SumDataset(c) ==
    IF c.has_test /\ c.n_test > 0 THEN TrainSet(c) \cup TestSet(c) ELSE TrainSet(c)

\* len(DataLoader): the number of batches of an epoch.
NumBatches(loader, batch_size) ==
    (Cardinality(loader.dataset) + batch_size - 1) \div batch_size


(***************************************************************************)
(* Instructor._train_and_evaluate                                          *)
(***************************************************************************)
Metrics == 0..MaxMetric

\* Lines 169-174: the directory name carries the two rounded percentages.
CheckpointPath(test_acc, f1) == <<"acc", RoundPct(test_acc), "f1", RoundPct(f1)>>

\* Lines 226-229: the directory of the model saved without any evaluation.
FinalPath == <<"final">>

\* save_model(opt, model, tokenizer, save_path, mode=0): the directory
\* save_path holds what fold f wrote last.
save_model(disk, path, f) ==
    {d \in disk : d.path # path} \cup {[path |-> path, fold |-> f]}

\* shutil.rmtree(save_path) of lines 162-168; a failure is swallowed and
\* leaves the directory in place.
rmtree(disk, path, ok) == IF ok THEN {d \in disk : d.path # path} ELSE disk

\* Lines 61-64 and 101-109: the state a run starts from.
\* optimizer tells whether self.optimizer has made a step since it was
\* constructed; n_eval counts the calls of _evaluate_acc_f1 in the current
\* fold, best_acc and best_f1 are the largest values any of them returned in
\* the run.
InitRun(c) ==
    [f |-> 0, epoch |-> 0, i_batch |-> 0, global_step |-> 0,
     max_fold_acc |-> 0, max_fold_f1 |-> 0, save_path |-> <<>>,
     max_apc_test_acc |-> 0, max_apc_test_f1 |-> 0,
     fold_test_acc |-> <<>>, fold_test_f1 |-> <<>>,
     disk |-> {}, snapshot |-> (c.cross_validate_fold > 0), model |-> "init",
     optimizer |-> "fresh",
     fold_saves |-> <<>>, rm_failed |-> 0,
     n_eval |-> 0, best_acc |-> 0, best_f1 |-> 0,
     exc |-> "none", ret |-> "none"]

\* zip(self.train_data_loaders, self.test_data_loaders) of line 110.
NumFolds ==
    IF Len(train_data_loaders) < Len(test_data_loaders)
    THEN Len(train_data_loaders) ELSE Len(test_data_loaders)

\* Line 100: prepare_dataloader(self.train_set, self.test_set).
PrepareDataloader ==
    /\ tpc = "constructed"
    /\ \E perm \in Shuffles(SumDataset(cfg)), empty_ok \in BOOLEAN :
          LET r == IF cfg.cross_validate_fold < 1 THEN SingleSplit(cfg)
                   ELSE CrossValidationSplit(cfg, SumDataset(cfg), perm, empty_ok)
          IN  /\ folds' = r.folds
              /\ train_data_loaders' = r.train
              /\ test_data_loaders' = r.test
              /\ tpc' = IF r.exc = "none" THEN "loop" ELSE "raised"
              /\ run' = [run EXCEPT !.exc = r.exc]
    /\ UNCHANGED cfg
    /\ UNCHANGED inferVars
    /\ UNCHANGED callerVars
    /\ UNCHANGED featVars

\* Lines 110-121: the head of one fold; len(self.test_set) of line 113 needs
\* a test set.
BeginFold ==
    /\ tpc = "loop"
    /\ run.f < NumFolds
    /\ IF ~cfg.has_test
       THEN /\ tpc' = "raised"
            /\ run' = [run EXCEPT !.exc = "TypeError"]
       ELSE /\ tpc' = "train"
            /\ run' = [run EXCEPT !.global_step = 0, !.max_fold_acc = 0,
                                  !.max_fold_f1 = 0, !.save_path = <<>>,
                                  !.epoch = 0, !.i_batch = 0,
                                  !.fold_saves = <<>>, !.rm_failed = 0,
                                  !.n_eval = 0]
    /\ UNCHANGED <<cfg, folds, train_data_loaders, test_data_loaders>>
    /\ UNCHANGED inferVars
    /\ UNCHANGED callerVars
    /\ UNCHANGED featVars


EvaluatesAnyEpoch(c, global_step, epoch) ==
    /\ c.has_test
    /\ global_step % c.log_step = 0

\* Lines 146-147: an evaluation follows the step.
Evaluates(c, global_step, epoch) ==
    /\ c.has_test
    /\ global_step % c.log_step = 0
    /\ epoch >= c.evaluate_begin

\* The comparison of line 156.
Improves(test_acc, max_fold_acc) == test_acc > max_fold_acc

Max(a, b) == IF a > b THEN a ELSE b

\* Line 264 of _evaluate_acc_f1 divides by the number of test examples seen.
EvaluateFails(test_dataloader) == test_dataloader.dataset = {}

\* Lines 125-195: one batch that runs to its end.  test_acc and f1 are what
\* _evaluate_acc_f1 returns if it is called, rm_ok whether rmtree succeeds if
\* it is called.
Step(r, c, n_batches, test_acc, f1, rm_ok) ==
    LET global_step == r.global_step + 1
        evaluates   == Evaluates(c, global_step, r.epoch)
        improved    == evaluates /\ Improves(test_acc, r.max_fold_acc)
        saves       == improved /\ c.has_path
        removes     == saves /\ r.save_path # <<>>
        new_path    == CheckpointPath(test_acc, f1)
        disk1       == IF removes THEN rmtree(r.disk, r.save_path, rm_ok) ELSE r.disk
        last        == r.i_batch + 1 = n_batches
    IN  [r EXCEPT
           !.global_step = global_step,
           !.model = "trained",
           !.optimizer = "stepped",
           !.n_eval = IF evaluates THEN @ + 1 ELSE @,
           !.best_acc = IF evaluates THEN Max(test_acc, @) ELSE @,
           !.best_f1 = IF evaluates THEN Max(f1, @) ELSE @,
           !.max_fold_acc = IF improved THEN test_acc ELSE @,
           !.max_fold_f1 = IF evaluates THEN Max(f1, @) ELSE @,
           !.save_path = IF saves THEN new_path ELSE @,
           !.disk = IF saves THEN save_model(disk1, new_path, r.f) ELSE @,
           !.max_apc_test_acc = IF saves THEN Max(test_acc, @) ELSE @,
           !.max_apc_test_f1 = IF saves THEN Max(f1, @) ELSE @,
           !.fold_saves = IF saves
                          THEN Append(@, [acc |-> test_acc, prev |-> r.max_fold_acc])
                          ELSE @,
           !.rm_failed = IF removes /\ ~rm_ok THEN @ + 1 ELSE @,
           !.i_batch = IF last THEN 0 ELSE @ + 1,
           !.epoch = IF last THEN @ + 1 ELSE @]

TrainStep ==
    /\ tpc = "train"
    /\ run.epoch < cfg.num_epoch
    /\ LET n_batches == NumBatches(train_data_loaders[run.f + 1], cfg.batch_size)
       IN  /\ run.i_batch < n_batches
           /\ IF /\ Evaluates(cfg, run.global_step + 1, run.epoch)
                 /\ EvaluateFails(test_data_loaders[run.f + 1])
              THEN /\ tpc' = "raised"
                   /\ run' = [run EXCEPT !.global_step = @ + 1,
                                         !.model = "trained",
                                         !.optimizer = "stepped",
                                         !.n_eval = @ + 1,
                                         !.exc = "ZeroDivisionError"]
              ELSE /\ tpc' = tpc
                   /\ \E test_acc \in Metrics, f1 \in Metrics, rm_ok \in BOOLEAN :
                         run' = Step(run, cfg, n_batches, test_acc, f1, rm_ok)
    /\ UNCHANGED <<cfg, folds, train_data_loaders, test_data_loaders>>
    /\ UNCHANGED inferVars
    /\ UNCHANGED callerVars
    /\ UNCHANGED featVars

ReloadOptimizerOnly(r) == [r EXCEPT !.optimizer = "fresh"]

\* Lines 66-69: reload_model loads the snapshot into the model and constructs
\* the optimizer anew.
reload_model(r) == [r EXCEPT !.model = "init", !.optimizer = "fresh"]

\* Lines 205-206 and 220-221: if os.path.exists('./init_state_dict.bin').
Reloaded(r) == IF r.snapshot THEN reload_model(r) ELSE r

\* Lines 196-206: the end of a fold.
EndFold ==
    /\ tpc = "train"
    /\ run.epoch = IF NumBatches(train_data_loaders[run.f + 1], cfg.batch_size) = 0
                   THEN run.epoch ELSE cfg.num_epoch
    /\ run' = Reloaded([run EXCEPT
                          !.fold_test_acc = Append(@, run.max_fold_acc),
                          !.fold_test_f1 = Append(@, run.max_fold_f1),
                          !.f = @ + 1])
    /\ tpc' = "loop"
    /\ UNCHANGED <<cfg, folds, train_data_loaders, test_data_loaders>>
    /\ UNCHANGED inferVars
    /\ UNCHANGED callerVars
    /\ UNCHANGED featVars

\* Lines 207-233: after the last fold.
Finalize ==
    /\ tpc = "loop"
    /\ run.f = NumFolds
    /\ LET direct == run.save_path = <<>> /\ cfg.has_path
       IN  run' = [Reloaded(run) EXCEPT
                     !.snapshot = FALSE,
                     !.save_path = IF direct THEN FinalPath ELSE @,
                     !.disk = IF direct THEN save_model(@, FinalPath, run.f) ELSE @,
                     !.ret = IF run.save_path # <<>> THEN "save_path" ELSE "model"]
    /\ tpc' = "done"
    /\ UNCHANGED <<cfg, folds, train_data_loaders, test_data_loaders>>
    /\ UNCHANGED inferVars
    /\ UNCHANGED callerVars
    /\ UNCHANGED featVars

(***************************************************************************)
(* The explored runs                                                       *)
(***************************************************************************)
InferIdle ==
    /\ pc = "idle"
    /\ line = <<>>
    /\ samples = <<>>
    /\ warned = FALSE
    /\ errored = FALSE
    /\ opt = <<>>
    /\ ignore_error = TRUE
    /\ all_data = <<>>
    /\ raised = "none"
    /\ n_processed = 0

\* The datasets: train always, test if the configuration names one.
Datasets ==
    {d \in [has_test : BOOLEAN, n_train : 1..MaxExamples, n_test : 0..1] :
        d.has_test <=> d.n_test > 0}

\* prepare_dataloader alone, over every dataset and fold count.
SplitCfgs ==
    {[cross_validate_fold |-> k, has_test |-> d.has_test,
      n_train |-> d.n_train, n_test |-> d.n_test,
      num_epoch |-> 1, log_step |-> 1, evaluate_begin |-> 0,
      has_path |-> TRUE, batch_size |-> 1] : k \in 0..MaxFold, d \in Datasets}

SplitInit ==
    /\ tpc = "constructed"
    /\ cfg \in SplitCfgs
    /\ folds = <<>>
    /\ train_data_loaders = <<>>
    /\ test_data_loaders = <<>>
    /\ run = InitRun(cfg)
    /\ InferIdle
    /\ CallerIdle
    /\ FeatIdle

SpecSplit == SplitInit /\ [][PrepareDataloader]_vars

\* Whole training runs over one training example and at most one test
\* example, in batches of one.
TrainCfgs ==
    {[cross_validate_fold |-> k, has_test |-> t,
      n_train |-> 1, n_test |-> IF t THEN 1 ELSE 0,
      num_epoch |-> e, log_step |-> l, evaluate_begin |-> b,
      has_path |-> p, batch_size |-> 1] :
        k \in 0..MaxTrainFold, t \in BOOLEAN, e \in 1..MaxEpoch,
        l \in LogSteps, b \in EvalBegins, p \in BOOLEAN}

TrainInit ==
    /\ tpc = "constructed"
    /\ cfg \in TrainCfgs
    /\ folds = <<>>
    /\ train_data_loaders = <<>>
    /\ test_data_loaders = <<>>
    /\ run = InitRun(cfg)
    /\ InferIdle
    /\ CallerIdle
    /\ FeatIdle

TrainNext == PrepareDataloader \/ BeginFold \/ TrainStep \/ EndFold \/ Finalize

SpecTrain == TrainInit /\ [][TrainNext]_vars


(***************************************************************************)
(* Properties of the training run                                          *)
(***************************************************************************)
\* The checkpoint directories on disk that the running fold wrote.
FoldDirs == {d \in run.disk : d.fold = run.f}

SavesOnlyOnImprovement ==
    \A i \in 1..Len(run.fold_saves) : run.fold_saves[i].acc > run.fold_saves[i].prev

SavesNonDecreasing ==
    \A i, j \in 1..Len(run.fold_saves) :
        i < j => run.fold_saves[i].acc <= run.fold_saves[j].acc

\* C9: at every point during a fold at most one checkpoint directory written
\* by that fold is on disk, also when removing the previous one fails; a
\* checkpoint is written only when the test accuracy exceeds the fold's
\* running maximum; the accuracies of the fold's saves never decrease.
C9_CheckpointRetention ==
    tpc = "train" =>
        /\ Cardinality(FoldDirs) <= 1
        /\ SavesOnlyOnImprovement
        /\ SavesNonDecreasing

\* What the run does keep: every directory beyond the first is one whose
\* removal failed.
RetentionUpToFailedRemovals ==
    tpc = "train" =>
        /\ Cardinality(FoldDirs) <= 1 + run.rm_failed
        /\ SavesOnlyOnImprovement
        /\ SavesNonDecreasing

\* The loaders prepare_dataloader has built are a k-fold partition.
KFoldPartition ==
    LET k == cfg.cross_validate_fold
        n == Cardinality(SumDataset(cfg))
    IN  /\ Len(train_data_loaders) = k
        /\ Len(test_data_loaders) = k
        /\ \A f, g \in 1..k :
              f # g => test_data_loaders[f].dataset \cap test_data_loaders[g].dataset = {}
        /\ UNION {test_data_loaders[f].dataset : f \in 1..k} = SumDataset(cfg)
        /\ \A f \in 1..k :
              Cardinality(test_data_loaders[f].dataset) =
                  IF f < k THEN n \div k ELSE n - (k - 1) * (n \div k)
        /\ \A f \in 1..k :
              train_data_loaders[f].dataset = SumDataset(cfg) \ test_data_loaders[f].dataset

\* C10: prepare_dataloader with cross_validate_fold = k >= 1 builds exactly k
\* train/test loader pairs whose held-out parts partition the N examples, the
\* first k-1 of floor(N/k) examples and the last of the rest, each fold
\* training on exactly the examples it does not hold out.
C10_KFoldPartitionForEveryK ==
    (tpc # "constructed" /\ cfg.cross_validate_fold >= 1) => KFoldPartition

\* The same whenever prepare_dataloader returns.
PartitionWhenPrepared ==
    (tpc = "loop" /\ cfg.cross_validate_fold >= 1) => KFoldPartition

\* A checkpoint of some evaluation of the run is on disk (a scored directory
\* is only ever removed to make room for the next one).
CheckpointSaved == \E d \in run.disk : d.path # FinalPath

FinalWritten == \E d \in run.disk : d.path = FinalPath

\* C11: when the run ends with a checkpoint root configured, the final
\* un-scored checkpoint is written and the live model tuple is returned if and
\* only if no checkpoint was saved at any evaluation in any fold; otherwise no
\* final checkpoint is written and a saved checkpoint's path is returned.
C11_FinalCheckpointIffNothingSaved ==
    (tpc = "done" /\ cfg.has_path) =>
        /\ (FinalWritten /\ run.ret = "model") <=> ~CheckpointSaved
        /\ CheckpointSaved => (~FinalWritten /\ run.ret = "save_path")

\* What Finalize does decide on: the checkpoint path of the last fold.
FinalFollowsLastFold ==
    (tpc = "done" /\ cfg.has_path) =>
        /\ (FinalWritten /\ run.ret = "model") <=> run.save_path = FinalPath
        /\ run.save_path # <<>>

(***************************************************************************)
(* train4apc                                                               *)
(***************************************************************************)
\* How one call Instructor(opt, logger) of line 303 may end: it returns the
\* trainer, or raises the ValueError of a failed download, or raises
\* something else.
Constructions == {"ok", "ValueError", "OSError"}

\* A mutation of line 304: every exception is taken for a connection error.
RetriesAny(outcome) == outcome # "ok"

\* Line 304: except ValueError.
Retries(outcome) == outcome = "ValueError"

\* Lines 299-300: trainer = None, nothing attempted.
InitT4 == [trainer |-> FALSE, last |-> "none", retried |-> FALSE, n_run |-> 0]

\* Lines 301-305: one pass of `while not trainer`.
Construct ==
    /\ tpc = "train4apc"
    /\ \E outcome \in Constructions :
          /\ t4' = [t4 EXCEPT !.trainer = (outcome = "ok"), !.last = outcome]
          /\ tpc' = IF outcome = "ok" THEN "built"
                    ELSE IF Retries(outcome) THEN "sleeping"
                    ELSE "raised"
          /\ run' = IF outcome = "ok" \/ Retries(outcome) THEN run
                    ELSE [run EXCEPT !.exc = outcome]
    /\ UNCHANGED <<cfg, folds, train_data_loaders, test_data_loaders, pred>>
    /\ UNCHANGED inferVars
    /\ UNCHANGED featVars

\* Line 306: time.sleep(60) returns and the loop tests `not trainer` again.
Sleep ==
    /\ tpc = "sleeping"
    /\ tpc' = "train4apc"
    /\ t4' = [t4 EXCEPT !.retried = TRUE]
    /\ UNCHANGED <<cfg, folds, train_data_loaders, test_data_loaders, run, pred>>
    /\ UNCHANGED inferVars
    /\ UNCHANGED featVars

\* Line 307: trainer.run() enters _train_and_evaluate.
Run ==
    /\ tpc = "built"
    /\ tpc' = "constructed"
    /\ t4' = [t4 EXCEPT !.n_run = @ + 1]
    /\ UNCHANGED <<cfg, folds, train_data_loaders, test_data_loaders, run, pred>>
    /\ UNCHANGED inferVars
    /\ UNCHANGED featVars

RetryInit ==
    /\ tpc = "train4apc"
    /\ cfg \in TrainCfgs
    /\ folds = <<>>
    /\ train_data_loaders = <<>>
    /\ test_data_loaders = <<>>
    /\ run = InitRun(cfg)
    /\ t4 = InitT4
    /\ pred = <<>>
    /\ InferIdle
    /\ FeatIdle

RetryNext == Construct \/ Sleep \/ Run \/ TrainNext

\* Python runs the one thread on: no step that can be taken is put off for
\* ever.  The outcome of a construction is not the program's to choose.
SpecRetry == RetryInit /\ [][RetryNext]_vars /\ WF_vars(RetryNext)

MaxSide      == 3
MaxAspectLen == 3
MaxSRD       == 2
MaxVecLen    == 7

\* A token sequence cut to n ids and zero-padded, as the tokenizer returns it
\* (a word stands for its id, <<>> for the id 0).
PadTo(words, n) ==
    [i \in 1..n |-> IF i <= Len(words) THEN words[i] ELSE <<>>]

\* Line 211: np.flatnonzero(text_ids)[-1] + 1
TextLen(text_ids) ==
    CHOOSE n \in 1..Len(text_ids) :
        /\ text_ids[n] # <<>>
        /\ \A m \in (n + 1)..Len(text_ids) : text_ids[m] = <<>>

\* Line 230, doubled like the aspect index: 2 * max(0, aspect_begin - SRD).
LocalContextBegin2(asp2, srd) == IF asp2 - 2 * srd > 0 THEN asp2 - 2 * srd ELSE 0

\* Line 231, doubled: 2 * (aspect_begin + aspect_len + SRD - 1).
LocalContextEnd2(asp2, aspect_len, srd) == asp2 + 2 * aspect_len + 2 * srd - 2

\* Lines 232-240: the weight of position i (from 0) of the text, as the
\* numerator over the denominator 2 * text_len.  (The program stores the
\* float32 nearest to the quotient.)
CdwWeight2(i, lcb2, lce2, text_len) ==
    IF 2 * i < lcb2 THEN 2 * text_len - (lcb2 - 2 * i)
    ELSE IF 2 * i <= lce2 THEN 2 * text_len
    ELSE 2 * text_len - (2 * i - lce2)

\* get_cdw_vec(text_ids, aspect_indices, ...) for a model without 'lcfs' in
\* its name: one weight per position, each a numerator over 2 * text_len;
\* np.argwhere(...)[0] raises IndexError if the aspect's first id is not in
\* text_ids.  Positions from text_len on keep the 0 of np.zeros.
get_cdw_vec(text_ids, aspect_indices, srd) ==
    IF ArgWhere(text_ids, aspect_indices) = {}
    THEN [exc |-> "IndexError", den |-> 0, cdw_vec |-> <<>>]
    ELSE LET aspect_len == CountNonzero(aspect_indices) - 2
             asp2       == get_asp_index2(text_ids, aspect_indices)
             text_len   == TextLen(text_ids)
             lcb2       == LocalContextBegin2(asp2, srd)
             lce2       == LocalContextEnd2(asp2, aspect_len, srd)
         IN  [exc |-> "none",
              den |-> 2 * text_len,
              cdw_vec |-> [p \in 1..Len(text_ids) |->
                              IF p - 1 < text_len
                              THEN CdwWeight2(p - 1, lcb2, lce2, text_len)
                              ELSE 0]]

\* Word lists of at most n words over the given words.
WordLists(words, lo, n) == UNION {[1..k -> words] : k \in lo..n}

\* Lines 106 and 108: the two id sequences handed to the builder.
TextIds(left, aspect, right, n) ==
    PadTo(<< <<CLS>> >> \o left \o aspect \o right \o << <<SEP>> >> \o aspect
              \o << <<SEP>> >>, n)

AspectIds(aspect, n) == PadTo(<< <<CLS>> >> \o aspect \o << <<SEP>> >>, n)

\* The explored calls: the aspect's first word may also stand to its left.
WeightsInit ==
    /\ \E left \in WordLists({<<"x">>, <<"a">>}, 0, MaxSide),
          aspect \in WordLists({<<"a">>, <<"b">>}, 1, MaxAspectLen),
          right \in WordLists({<<"x">>}, 0, MaxSide),
          n \in 3..MaxVecLen, srd \in 0..MaxSRD :
          vec = [at |-> "called",
                 text_ids |-> TextIds(left, aspect, right, n),
                 aspect_indices |-> AspectIds(aspect, n),
                 SRD |-> srd, exc |-> "none", den |-> 0, cdw_vec |-> <<>>]
    /\ InferIdle
    /\ TrainIdle
    /\ CallerIdle

GetCdwVec ==
    /\ vec.at = "called"
    /\ LET r == get_cdw_vec(vec.text_ids, vec.aspect_indices, vec.SRD)
       IN  vec' = [vec EXCEPT !.at = "returned", !.exc = r.exc,
                              !.den = r.den, !.cdw_vec = r.cdw_vec]
    /\ UNCHANGED <<inferVars, trainVars, callerVars>>

SpecWeights == WeightsInit /\ [][GetCdwVec]_vars

(***************************************************************************)
(* Properties of get_cdw_vec                                               *)
(***************************************************************************)
\* The quantities the statement is about, read off the call's arguments
\* (doubled where the aspect index may be fractional).
VecReturned == vec.at = "returned" /\ vec.exc = "none"
VecTextLen  == TextLen(vec.text_ids)
VecAspLen   == CountNonzero(vec.aspect_indices) - 2
VecAsp2     == get_asp_index2(vec.text_ids, vec.aspect_indices)
WindowLo2   == IF VecAsp2 - 2 * vec.SRD > 0 THEN VecAsp2 - 2 * vec.SRD ELSE 0
WindowHi2   == VecAsp2 + 2 * VecAspLen + 2 * vec.SRD - 2
InWindow(i) == WindowLo2 <= 2 * i /\ 2 * i <= WindowHi2
\* Twice the distance of position i from the window.
Distance2(i) == IF 2 * i < WindowLo2 THEN WindowLo2 - 2 * i ELSE 2 * i - WindowHi2
\* The weight of position i (from 0).
Weight(i) == vec.cdw_vec[i + 1]

\* Inside the window the weight is 1, outside it is 1 - distance / text_len,
\* between 0 and 1, and it does not grow with the distance.
WeightAsStated(i) ==
    /\ InWindow(i) => Weight(i) = vec.den
    /\ ~InWindow(i) =>
          /\ Weight(i) = 2 * VecTextLen - Distance2(i)
          /\ \A j \in 0..(Len(vec.cdw_vec) - 1) :
                (~InWindow(j) /\ Distance2(i) <= Distance2(j))
                    => Weight(j) <= Weight(i)
    /\ 0 <= Weight(i) /\ Weight(i) <= vec.den

\* C13 as stated: every position of the vector inside the local window
\* [max(0, asp_index - SRD), asp_index + aspect_len + SRD - 1] has weight 1,
\* every other position has the weight 1 - distance / text_len, which lies in
\* [0, 1] and never increases with the distance from the window.
C13_WeightsAtEveryPosition ==
    VecReturned => \A i \in 0..(Len(vec.cdw_vec) - 1) : WeightAsStated(i)

\* What the code computes: each of the text_len positions of the text has
\* weight 1 inside the local window and 1 - distance / text_len, not growing
\* with the distance, outside it (below 0 once the distance exceeds
\* text_len, as it does at the head of a text cut inside a long aspect);
\* every padding position, inside the window or not, has weight 0.
WeightsAtTextPositions ==
    VecReturned =>
        /\ \A i \in 0..(VecTextLen - 1) :
              /\ InWindow(i) => Weight(i) = vec.den
              /\ ~InWindow(i) =>
                    /\ Weight(i) = vec.den - Distance2(i)
                    /\ \A j \in 0..(VecTextLen - 1) :
                          (~InWindow(j) /\ Distance2(i) <= Distance2(j))
                              => Weight(j) <= Weight(i)
              /\ Weight(i) <= vec.den
        /\ vec.den = 2 * VecTextLen
        /\ \A i \in VecTextLen..(Len(vec.cdw_vec) - 1) : Weight(i) = 0

\* No weight is negative.
NoNegativeWeight ==
    VecReturned => \A i \in 0..(Len(vec.cdw_vec) - 1) : Weight(i) >= 0

(***************************************************************************)
(* SentimentClassifier: infer / batch_infer, then _infer                   *)
(***************************************************************************)
\* Line 137: sentiments, a dict with the keys 0, 1, 2 and -999.
SentimentKeys == {0, 1, 2, NoLabel}

sentiments(k) ==
    CASE k = 0 -> "Negative"
      [] k = 1 -> "Neutral"
      [] k = 2 -> "Positive"
      [] k = NoLabel -> ""

\* Line 138: Correct[sent == real_sent]
Correct(b) == IF b THEN "Correct" ELSE "Wrong"

\* The classes the model may predict: argmax over the three logits.
Classes == {0, 1, 2}

\* Lines 139-146: what _infer starts from; save says whether a save_path was
\* given.  calls counts the calls of infer / batch_infer made before this
\* one, clear is this call's clear_input_samples and before the dataset's
\* contents when the call was made.
InitPred(save) ==
    [at |-> "idle", save |-> save, i |-> 0, results |-> <<>>,
     n_correct |-> 0, n_labeled |-> 0, written |-> 0, write_failed |-> FALSE,
     exc |-> "none", calls |-> 0, clear |-> FALSE, before |-> <<>>]

\* Lines 121-122 / 131-132 and 134-146: the data loader is built over the
\* dataset and _infer entered, if preparing the dataset has returned.
BeginInfer ==
    /\ pc = "processed"
    /\ raised = "none"
    /\ pred.at = "idle"
    /\ pred' = [pred EXCEPT !.at = "loop"]
    /\ UNCHANGED <<inferVars, trainVars, t4, featVars>>

\* Lines 148-163: the result record of a sample predicted as sent.
ResultOf(sample, sent) ==
    [text |-> sample.text_raw,
     aspect |-> sample.aspect,
     sentiment |-> sent,
     ref_sentiment |-> sentiments(sample.polarity),
     infer_result |-> Correct(sent = sample.polarity)]

\* Lines 147-188: one pass of the loop over the loader (batches of one, in
\* dataset order).  sent is the predicted class, write_ok whether the two
\* fout.write calls succeed if they are made.
InferSample ==
    /\ pred.at = "loop"
    /\ pred.i < Len(all_data)
    /\ \E sent \in Classes, write_ok \in BOOLEAN :
          LET sample    == all_data[pred.i + 1]
              real_sent == sample.polarity
          IN  IF real_sent \notin SentimentKeys
              THEN pred' = [pred EXCEPT !.at = "raised", !.exc = "KeyError"]
              ELSE IF pred.save /\ ~write_ok
              THEN pred' = [pred EXCEPT
                              !.results = Append(@, ResultOf(sample, sent)),
                              !.n_labeled = IF real_sent = NoLabel THEN @ ELSE @ + 1,
                              !.n_correct = IF sent = real_sent THEN @ + 1 ELSE @,
                              !.write_failed = TRUE,
                              !.at = "raised", !.exc = "IOError"]
              ELSE pred' = [pred EXCEPT
                              !.results = Append(@, ResultOf(sample, sent)),
                              !.n_labeled = IF real_sent = NoLabel THEN @ ELSE @ + 1,
                              !.n_correct = IF sent = real_sent THEN @ + 1 ELSE @,
                              !.written = IF pred.save THEN @ + 2 ELSE @,
                              !.i = @ + 1]
    /\ UNCHANGED <<inferVars, trainVars, t4, featVars>>

\* Lines 190-203: the summary; whatever goes wrong while it is written (a
\* failed write, the division by n_labeled = 0) is passed over.
FinishInfer ==
    /\ pred.at = "loop"
    /\ pred.i = Len(all_data)
    /\ \E write_ok \in BOOLEAN :
          pred' = [pred EXCEPT
                     !.at = "returned",
                     !.written = IF pred.save /\ write_ok /\ pred.n_labeled > 0
                                 THEN @ + 3
                                 ELSE IF pred.save /\ write_ok THEN @ + 2
                                 ELSE @,
                     !.write_failed = @ \/ (pred.save /\ ~write_ok)]
    /\ UNCHANGED <<inferVars, trainVars, t4, featVars>>

\* The explored calls run one model; the records do not depend on which.
PredictOpts == {[model_name |-> "bert_base", lcf |-> "cdm"]}

PredictInit ==
    /\ pc = "start"
    /\ line \in Lines
    /\ samples = <<>>
    /\ warned = FALSE
    /\ errored = FALSE
    /\ opt \in PredictOpts
    /\ ignore_error = TRUE
    /\ all_data = <<>>
    /\ raised = "none"
    /\ n_processed = 0
    /\ TrainIdle
    /\ t4 = <<>>
    /\ \E save \in BOOLEAN : pred = InitPred(save)
    /\ FeatIdle

PredictNext == ParseSample \/ ProcessData \/ BeginInfer \/ InferSample \/ FinishInfer

SpecPredict == PredictInit /\ [][PredictNext]_vars

(***************************************************************************)
(* Properties of _infer                                                    *)
(***************************************************************************)
\* The label p written in a labeled sample.
LabelOf(sample) == DigitVal(Annotation(sample)[1])

\* C14: for a line labeled p in {0,1,2} inference completes (no lookup of
\* the reference polarity fails) and the result record has ref_sentiment the
\* name of p and 'infer result' Correct exactly when the predicted class is
\* p; for an unlabeled line ref_sentiment is empty and the record carries no
\* Correct/Wrong verdict.
C14_RecordsReflectReferencePolarity ==
    (Len(all_data) = Len(samples))
        => /\ pred.exc # "KeyError"
           /\ \A i \in 1..Len(pred.results) :
                 /\ Labeled(samples[i])
                       => /\ pred.results[i].ref_sentiment = sentiments(LabelOf(samples[i]))
                          /\ (pred.results[i].infer_result = "Correct")
                                <=> (pred.results[i].sentiment = LabelOf(samples[i]))
                 /\ Unlabeled(samples[i])
                       => /\ pred.results[i].ref_sentiment = ""
                          /\ pred.results[i].infer_result \notin {"Correct", "Wrong"}

\* What the code does instead: the record's polarity, one more than the
\* label, is what is looked up and compared.
RecordsReflectShiftedPolarity ==
    (Len(all_data) = Len(samples))
        => /\ (pred.exc = "KeyError")
                 => Labeled(samples[pred.i + 1]) /\ LabelOf(samples[pred.i + 1]) = 2
           /\ \A i \in 1..Len(pred.results) :
                 /\ Labeled(samples[i])
                       => /\ LabelOf(samples[i]) < 2
                          /\ pred.results[i].ref_sentiment
                                = sentiments(LabelOf(samples[i]) + 1)
                          /\ (pred.results[i].infer_result = "Correct")
                                <=> (pred.results[i].sentiment = LabelOf(samples[i]) + 1)
                 /\ Unlabeled(samples[i])
                       => /\ pred.results[i].ref_sentiment = ""
                          /\ pred.results[i].infer_result = "Wrong"

\* C15: with a save path, a failed write of a result line or of the summary
\* does not abort inference: no exception leaves _infer because of it, and
\* when _infer returns every record of the dataset has its result.
C15_WriteFailureDoesNotAbort ==
    (pred.save /\ pred.write_failed)
        => /\ pred.at # "raised"
           /\ (pred.at = "returned" => Len(pred.results) = Len(all_data))

\* What the code does: only a failed summary write is passed over; a failed
\* result line raises IOError and ends the loop.
SummaryFailureDoesNotAbort ==
    /\ (pred.at = "raised" /\ pred.exc = "IOError")
          => pred.save /\ pred.write_failed /\ Len(pred.results) = pred.i + 1
    /\ (pred.at = "returned") => Len(pred.results) = Len(all_data)

(***************************************************************************)
(* The linkage pass of process_data on its own                             *)
(***************************************************************************)
\* Largest number of built records the pass is explored on.
MaxRecords == 3

\* The lcf_vec and text_bert_indices the explored records carry.
LcfVecs    == {<<0, 1>>, <<1, 0>>, <<1, 1>>}
SlideWords == {<<"a">>, <<"b">>}
SlideTexts == [1..2 -> SlideWords]
SlideRecords == [lcf_vec : LcfVecs, text_bert_indices : SlideTexts]

SlideInit ==
    /\ InferIdle
    /\ TrainIdle
    /\ CallerIdle
    /\ \E n \in 0..MaxRecords, model_name \in {"lcf_bert", "slide_lcf_bert"} :
          \E built \in [1..n -> SlideRecords] :
             vec = [at |-> "built", model_name |-> model_name,
                    built |-> built, all_data |-> <<>>]

\* Lines 161-172 on the records the loop has built.
SlidePass ==
    /\ vec.at = "built"
    /\ vec' = [vec EXCEPT !.at = "linked",
                          !.all_data = SlideLinkage(vec.built, vec.model_name)]
    /\ UNCHANGED <<inferVars, trainVars, callerVars>>

SpecSlide == SlideInit /\ [][SlidePass]_vars

\* The fields of the i-th record after the pass.
Linked(i) == vec.all_data[i]
Similar(i) == is_similar(vec.built[i].text_bert_indices,
                         vec.built[i + 1].text_bert_indices)

\* C16: after the pass of a slide model over n >= 1 built records every record
\* has a left and a right vector; the first record's left vector and the
\* last record's right vector are their own lcf_vec; of a neighbouring pair
\* judged similar each takes the other's lcf_vec on the side facing it, of a
\* pair not judged similar each takes its own; and every record's lcf_vec is
\* what it was before the pass.
C16_SlideLinkage ==
    (vec.at = "linked" /\ vec.model_name = "slide_lcf_bert" /\ Len(vec.built) >= 1)
        => LET n == Len(vec.built)
           IN  /\ Len(vec.all_data) = n
               /\ \A i \in 1..n :
                     /\ {"left_lcf_vec", "right_lcf_vec"} \subseteq DOMAIN Linked(i)
                     /\ Linked(i).lcf_vec = vec.built[i].lcf_vec
               /\ Linked(1).left_lcf_vec = vec.built[1].lcf_vec
               /\ Linked(n).right_lcf_vec = vec.built[n].lcf_vec
               /\ \A i \in 1..(n - 1) :
                     IF Similar(i)
                     THEN /\ Linked(i).right_lcf_vec = vec.built[i + 1].lcf_vec
                          /\ Linked(i + 1).left_lcf_vec = vec.built[i].lcf_vec
                     ELSE /\ Linked(i).right_lcf_vec = vec.built[i].lcf_vec
                          /\ Linked(i + 1).left_lcf_vec = vec.built[i + 1].lcf_vec

C16_Witness ==
    /\ vec.at = "linked" /\ vec.model_name = "slide_lcf_bert"
    /\ Len(vec.built) = 3
    /\ Similar(1) /\ ~Similar(2)
    /\ vec.built[1].text_bert_indices # vec.built[2].text_bert_indices
    /\ vec.built[1].lcf_vec # vec.built[2].lcf_vec
    /\ vec.built[2].lcf_vec # vec.built[3].lcf_vec
    /\ Linked(1).right_lcf_vec # Linked(1).lcf_vec
    /\ Linked(2).right_lcf_vec = Linked(2).lcf_vec

(***************************************************************************)
(* Properties of the evaluation schedule, the fold reset and the run-wide  *)
(* maxima                                                                  *)
(***************************************************************************)
\* A training step of the current fold is taken.
StepTaken == tpc = "train" /\ run'.global_step = run.global_step + 1

\* C17: a training step is followed by an evaluation if and only if a test
\* set is configured, the fold-local step counter (0 at the start of every
\* fold, incremented before the step) is a multiple of log_step and the
\* zero-based epoch is at least evaluate_begin; no step of an epoch before
\* evaluate_begin is followed by one, and a fold that has made fewer than
\* log_step steps has not been evaluated.
C17_PeriodicEvaluation ==
    /\ [][StepTaken
            => /\ run'.n_eval \in {run.n_eval, run.n_eval + 1}
               /\ (run'.n_eval = run.n_eval + 1)
                     <=> /\ cfg.has_test
                         /\ run'.global_step % cfg.log_step = 0
                         /\ run.epoch >= cfg.evaluate_begin
               /\ (run.epoch < cfg.evaluate_begin) => run'.n_eval = run.n_eval]_vars
    /\ [][(tpc = "loop" /\ tpc' = "train")
            => run'.global_step = 0 /\ run'.n_eval = 0]_vars
    /\ []((tpc = "train" /\ run.global_step < cfg.log_step) => run.n_eval = 0)
    /\ []((tpc = "loop" /\ run.f > 0 /\ run.global_step < cfg.log_step) => run.n_eval = 0)

C17_Witness ==
    /\ tpc = "train"
    /\ cfg.log_step = 2 /\ cfg.evaluate_begin = 1
    /\ run.global_step = 2
    /\ run.n_eval = 1

\* C18: with cross_validate_fold > 0 the snapshot of the initial weights is
\* written at construction, every fold starts with the model's parameters
\* equal to the snapshot and an optimizer that has made no step, and the
\* snapshot is gone once _train_and_evaluate has returned; with
\* cross_validate_fold <= 0 no snapshot is ever there and trained weights are
\* never reset.
C18_FoldReset ==
    /\ [](cfg.cross_validate_fold > 0
            => /\ (tpc = "constructed") => run.snapshot
               /\ (tpc = "train" /\ run.global_step = 0)
                     => /\ run.model = "init"
                        /\ run.optimizer = "fresh"
                        /\ run.snapshot
               /\ (tpc = "done") => ~run.snapshot)
    /\ [](cfg.cross_validate_fold <= 0 => ~run.snapshot)
    /\ [][cfg.cross_validate_fold <= 0
            => (run.model = "trained" => run'.model = "trained")]_vars

C18_Witness ==
    /\ cfg.cross_validate_fold = 2
    /\ tpc = "train"
    /\ run.f = 1
    /\ run.global_step = 0
    /\ Len(run.fold_test_acc) = 1 /\ run.fold_test_acc[1] > 0
    /\ run.model = "init" /\ run.optimizer = "fresh"

\* C19: max_test_metrics['max_apc_test_acc'] is the largest test accuracy,
\* and max_test_metrics['max_apc_test_f1'] the largest F1, that any
\* evaluation of the run has returned, whether or not model_path_to_save is
\* set.
C19_GlobalBestTracking ==
    (tpc \in {"loop", "train", "done"})
        => /\ run.max_apc_test_acc = run.best_acc
           /\ run.max_apc_test_f1 = run.best_f1

\* What the code keeps: the two maxima are taken over the evaluations that
\* saved a checkpoint, so they stay 0 without model_path_to_save and never
\* exceed the largest value returned.
BestOverSavingEvaluations ==
    /\ run.max_apc_test_acc <= run.best_acc
    /\ run.max_apc_test_f1 <= run.best_f1
    /\ ~cfg.has_path => run.max_apc_test_acc = 0 /\ run.max_apc_test_f1 = 0
    /\ (cfg.has_path /\ tpc \in {"loop", "train", "done"})
          => run.max_apc_test_acc = run.best_acc

(***************************************************************************)
(* Calls of infer / batch_infer one after another on one classifier        *)
(***************************************************************************)
\* Largest number of further calls, and the longest text of a call.
MaxCalls   == 1
MaxCallLen == 5

CallLines == {l \in Lines : Len(l) <= MaxCallLen}
CallOpts  == {[model_name |-> "slide_lcf_bert", lcf |-> "cdw"]}

\* The explored calls run a slide model and give no save path.
CallsInit ==
    /\ pc = "start"
    /\ line \in CallLines
    /\ samples = <<>>
    /\ warned = FALSE
    /\ errored = FALSE
    /\ opt \in CallOpts
    /\ ignore_error = TRUE
    /\ all_data = <<>>
    /\ raised = "none"
    /\ n_processed = 0
    /\ TrainIdle
    /\ t4 = <<>>
    /\ pred = InitPred(FALSE)
    /\ FeatIdle

\* Lines 110-113 and 124-128: the next call, made once the one before has
\* returned or raised; clear_input_samples empties the dataset first.
Call ==
    /\ pc = "processed"
    /\ pred.at \in {"idle", "returned", "raised"}
    /\ pred.calls < MaxCalls
    /\ \E text \in CallLines, clear_input_samples \in BOOLEAN :
          /\ line' = text
          /\ all_data' = IF clear_input_samples THEN <<>> ELSE all_data
          /\ pred' = [InitPred(pred.save) EXCEPT !.calls = pred.calls + 1,
                                                 !.clear = clear_input_samples,
                                                 !.before = all_data]
    /\ pc' = "start"
    /\ samples' = <<>>
    /\ warned' = FALSE
    /\ errored' = FALSE
    /\ raised' = "none"
    /\ n_processed' = 0
    /\ UNCHANGED <<opt, ignore_error, trainVars, t4, featVars>>

CallsNext ==
    Call \/ ParseSample \/ ProcessData \/ BeginInfer \/ InferSample \/ FinishInfer

SpecCalls == CallsInit /\ [][CallsNext]_vars

\* C20: once a call has prepared its dataset without raising, all_data is
\* exactly the records built from that call's samples, in sample order,
\* whatever the dataset held before and whether or not clear_input_samples
\* was set; and _infer leaves it as it is.
C20_DatasetRebuiltWholesale ==
    (pc = "processed" /\ raised = "none")
        => /\ all_data = BuiltRecords
           /\ Len(all_data) = Cardinality({i \in 1..Len(samples) : Builds(samples[i])})

C20_Witness ==
    /\ pc = "processed" /\ raised = "none"
    /\ pred.calls = 1
    /\ ~pred.clear
    /\ Len(pred.before) = 1
    /\ Len(all_data) = 1
    /\ all_data[1].text_raw # pred.before[1].text_raw
    /\ pred.at = "returned"

\* C21: when process_data raises, the dataset holds what it held when
\* process_data was called (the earlier contents, or nothing after
\* clear_input_samples): the same length, and the same record at every
\* index; no record built in the call that raised is among them.
C21_AbortLeavesDatasetUntouched ==
    /\ [][(pc = "parsed" /\ raised' # "none")
            => /\ DatasetLen(all_data') = DatasetLen(all_data)
               /\ \A index \in 0..(DatasetLen(all_data) - 1) :
                     GetItem(all_data', index) = GetItem(all_data, index)]_vars
    /\ []((pc = "processed" /\ raised # "none")
            => all_data = IF pred.clear THEN <<>> ELSE pred.before)

\* A call that raised at its second sample, after its first had built a
\* record, on a dataset that held one record of another text.
C21_Witness ==
    /\ pc = "processed" /\ raised = "RuntimeError"
    /\ ~ignore_error
    /\ n_processed = 2
    /\ Builds(samples[1])
    /\ pred.calls = 1 /\ ~pred.clear
    /\ Len(pred.before) = 1
    /\ all_data = pred.before
    /\ BuildRecord(samples[1], opt).data.text_raw # all_data[1].text_raw

\* The number of folds the claim expects of a configuration.
ExpectedFolds == Max(1, cfg.cross_validate_fold)

\* C22: for every configuration, with or without a test set, the run reaches
\* its end without raising, having gone through max(1, cross_validate_fold)
\* folds, and every fold it leaves has made num_epoch times the number of
\* batches of its training loader optimizer steps.
C22_EveryFoldTrainsFully ==
    /\ tpc # "raised"
    /\ (tpc = "done") => run.f = ExpectedFolds
    /\ (tpc = "loop" /\ run.f > 0)
          => run.global_step
                = cfg.num_epoch * NumBatches(train_data_loaders[run.f], cfg.batch_size)

\* What the code does: a fold that is left has made all its steps, but the
\* folds are the pairs of zip(train_data_loaders, test_data_loaders): none
\* without a test set and cross-validation, so that the run ends without a
\* step; and the head of a fold raises TypeError without a test set.
FoldsAreLoaderPairs ==
    /\ (tpc = "loop" /\ run.f > 0)
          => run.global_step
                = cfg.num_epoch * NumBatches(train_data_loaders[run.f], cfg.batch_size)
    /\ (tpc = "done") => run.f = NumFolds
    /\ (tpc = "done" /\ ~cfg.has_test)
          => /\ cfg.cross_validate_fold < 1
             /\ run.f = 0
             /\ run.model = "init" /\ run.optimizer = "fresh"
    /\ (tpc \in {"train", "done"} /\ run.model = "trained") => cfg.has_test
    /\ (tpc = "raised" /\ run.exc = "TypeError") => ~cfg.has_test

\* The position used by get_asp_index: the first occurrence of the aspect's
\* first id in text_ids.
VecFirstIndex == SetMin(ArgWhere(vec.text_ids, vec.aspect_indices))

\* C23: in position mode every position of the aspect span, first_index ..
\* first_index + aspect_len - 1, has weight exactly 1, for every aspect
\* length >= 1 and every SRD >= 0.
C23_AspectSpanHasWeightOne ==
    (VecReturned /\ VecAspLen >= 1)
        => \A i \in VecFirstIndex..(VecFirstIndex + VecAspLen - 1) :
              i < Len(vec.cdw_vec) => Weight(i) = vec.den

\* What the code does: the window starts at the averaged index first_index +
\* aspect_len / 2, so with SRD = 0 it begins behind the aspect's first
\* position; the positions of the span inside the text from the averaged
\* index on have weight 1, and the whole span has once 2 * SRD >= aspect_len.
AspectSpanFromAveragedIndex ==
    (VecReturned /\ VecAspLen >= 1)
        => \A i \in VecFirstIndex..(VecFirstIndex + VecAspLen - 1) :
              /\ (i < VecTextLen /\ 2 * i >= VecAsp2 - 2 * vec.SRD) => Weight(i) = vec.den
              /\ (i < VecTextLen /\ 2 * i < VecAsp2 - 2 * vec.SRD) => Weight(i) < vec.den
              /\ (i < VecTextLen /\ 2 * vec.SRD >= VecAspLen) => Weight(i) = vec.den

(***************************************************************************)
(* get_lca_ids_and_cdm_vec                                                 *)
(***************************************************************************)
\* Longest vector and largest dependency distance of the explored calls.
MaxMaskLen == 5
MaxDist    == 2

InitialZeros(i) == 0

\* Lines 177-178: np.ones(...) at position i (a row of cdm_vec stands for
\* the value all its entries have).
InitialOnes(i) == 1

\* Lines 192-194 and 201-203: position i after the loop.
MaskAt(i, local) == IF local THEN 1 ELSE InitialOnes(i)

\* Lines 175-204.  In syntactic mode ('lcfs' in the model's name)
\* syntactical_dist is what tokenizer.tokenize makes of calculate_dep_dist's
\* distances, an input here; reading it past its end raises IndexError.  In
\* position mode get_asp_index raises IndexError if the aspect's first id is
\* not in text_ids, and its result is never below 0.
get_lca_ids_and_cdm_vec(text_ids, aspect_indices, srd, lcfs, syntactical_dist) ==
    LET n == Len(text_ids)
        aspect_len == CountNonzero(aspect_indices) - 2
    IN  IF lcfs
        THEN IF Len(syntactical_dist) < n
             THEN [exc |-> "IndexError", lca_ids |-> <<>>, cdm_vec |-> <<>>]
             ELSE [exc |-> "none",
                   lca_ids |-> [p \in 1..n |-> MaskAt(p - 1, syntactical_dist[p] <= srd)],
                   cdm_vec |-> [p \in 1..n |-> MaskAt(p - 1, syntactical_dist[p] <= srd)]]
        ELSE IF ArgWhere(text_ids, aspect_indices) = {}
             THEN [exc |-> "IndexError", lca_ids |-> <<>>, cdm_vec |-> <<>>]
             ELSE LET asp2 == get_asp_index2(text_ids, aspect_indices)
                      lcb2 == LocalContextBegin2(asp2, srd)
                      lce2 == LocalContextEnd2(asp2, aspect_len, srd)
                      local(p) == lcb2 <= 2 * (p - 1) /\ 2 * (p - 1) <= lce2
                  IN  [exc |-> "none",
                       lca_ids |-> [p \in 1..n |-> MaskAt(p - 1, local(p))],
                       cdm_vec |-> [p \in 1..n |-> MaskAt(p - 1, local(p))]]

\* The explored calls: in position mode over texts, in syntactic mode over
\* distance lists, which may be one short of max_seq_len.
MaskInit ==
    /\ \E n \in 3..MaxMaskLen, srd \in 0..MaxSRD :
          \/ \E left \in WordLists({<<"x">>, <<"a">>}, 0, 2),
                aspect \in WordLists({<<"a">>, <<"b">>}, 1, 2),
                right \in WordLists({<<"x">>}, 0, 1) :
                vec = [at |-> "called", lcfs |-> FALSE,
                       text_ids |-> TextIds(left, aspect, right, n),
                       aspect_indices |-> AspectIds(aspect, n),
                       syntactical_dist |-> <<>>,
                       SRD |-> srd, exc |-> "none", lca_ids |-> <<>>, cdm_vec |-> <<>>]
          \/ \E k \in {n - 1, n} :
                \E dist \in [1..k -> 0..MaxDist] :
                   vec = [at |-> "called", lcfs |-> TRUE,
                          text_ids |-> TextIds(<<>>, << <<"a">> >>, <<>>, n),
                          aspect_indices |-> AspectIds(<< <<"a">> >>, n),
                          syntactical_dist |-> dist,
                          SRD |-> srd, exc |-> "none", lca_ids |-> <<>>, cdm_vec |-> <<>>]
    /\ InferIdle
    /\ TrainIdle
    /\ CallerIdle

GetLcaIdsAndCdmVec ==
    /\ vec.at = "called"
    /\ LET r == get_lca_ids_and_cdm_vec(vec.text_ids, vec.aspect_indices, vec.SRD,
                                        vec.lcfs, vec.syntactical_dist)
       IN  vec' = [vec EXCEPT !.at = "returned", !.exc = r.exc,
                              !.lca_ids = r.lca_ids, !.cdm_vec = r.cdm_vec]
    /\ UNCHANGED <<inferVars, trainVars, callerVars>>

SpecMask == MaskInit /\ [][GetLcaIdsAndCdmVec]_vars

\* Position p (from 1) of the call is inside the local context.
MaskLocal(p) ==
    IF vec.lcfs THEN vec.syntactical_dist[p] <= vec.SRD
    ELSE /\ WindowLo2 <= 2 * (p - 1)
         /\ 2 * (p - 1) <= WindowHi2

\* C24: whenever get_lca_ids_and_cdm_vec returns, lca_ids is 1 at each of
\* the max_seq_len positions and every row of cdm_vec is all ones, whatever
\* the SRD, the aspect's position and length or the dependency distances; a
\* position outside the local context has the value of one inside it.
C24_MaskIsAllOnes ==
    (vec.at = "returned" /\ vec.exc = "none")
        => /\ Len(vec.lca_ids) = Len(vec.text_ids)
           /\ Len(vec.cdm_vec) = Len(vec.text_ids)
           /\ \A p \in 1..Len(vec.text_ids) :
                 /\ vec.lca_ids[p] = 1
                 /\ vec.cdm_vec[p] = 1
           /\ \A p, q \in 1..Len(vec.text_ids) :
                 (MaskLocal(p) /\ ~MaskLocal(q))
                    => /\ vec.lca_ids[q] = vec.lca_ids[p]
                       /\ vec.cdm_vec[q] = vec.cdm_vec[p]

\* A call in syntactic mode that returned with positions inside and outside
\* the local context.
C24_Witness ==
    /\ vec.at = "returned" /\ vec.exc = "none"
    /\ vec.lcfs
    /\ vec.SRD = 1
    /\ \E p, q \in 1..Len(vec.text_ids) : MaskLocal(p) /\ ~MaskLocal(q)
    /\ vec.lca_ids[1] = 1

=============================================================================
